---- MODULE Spec2Model ----
(***************************************************************************)
(* RedisLess (src/lib.rs): the in-memory store, the connection handler     *)
(* handle_request, and the Server lifecycle (listener thread, signal       *)
(* thread, delayed helper threads and the caller's bounded wait, all on    *)
(* ONE crossbeam channel).                                                 *)
(*                                                                         *)
(* Byte strings (Vec<u8>, &[u8]) are sequences of numbers 0..255.          *)
(* A HashMap is a function whose DOMAIN is the set of its keys.            *)
(* An Option is a sequence of length 0 (None) or 1 (Some).                 *)
(***************************************************************************)
EXTENDS Integers, Sequences, FiniteSets, TLC

VARIABLES
    redisless,    \* the RedisLess value: [data_mapper, string_store]
    api,          \* the last direct call on the store and what it returned
    requests,     \* what handle_request decoded, per invocation, on the connection served
    replies,      \* what handle_request wrote to the socket, in order
    listener,     \* where the listener thread is
    chan,         \* the one unbounded channel: messages sent and not yet received
    stop_server,  \* the AtomicBool shared by the signal and listener threads
    helpers,      \* the helper threads still sleeping, each with the state it will send
    caller,       \* the embedding caller: idle, or waiting inside change_state
    results,      \* the finished start()/stop() calls with what they returned
    port_free,    \* environment: whether the configured address can be bound
    bound         \* whether the listener thread has completed a successful bind

vars == <<redisless, api, requests, replies, listener, chan, stop_server,
          helpers, caller, results, port_free, bound>>

storeVars == <<redisless, api>>
connVars == <<requests, replies>>
lifeVars == <<listener, chan, stop_server, helpers, caller, results, port_free, bound>>

----------------------------------------------------------------------------
(* Bytes and text                                                          *)

\* b"key", b"missing", b"value": the byte strings of the tests and the scenario
K_key == <<107, 101, 121>>
K_missing == <<109, 105, 115, 115, 105, 110, 103>>
V_value == <<118, 97, 108, 117, 101>>
\* one byte 0xFF: never valid UTF-8
V_bad == <<255>>
\* "é" in UTF-8 (0xC3 0xA9): valid, not ASCII
V_utf8 == <<195, 169>>

Keys == {K_key, K_missing}
Values == {V_value, V_bad, V_utf8}

None == <<>>
Some(x) == <<x>>

\* HashMap::new, HashMap::insert, HashMap::remove
EmptyMap == [k \in {} |-> {}]
Insert(m, k, v) == [x \in (DOMAIN m) \cup {k} |-> IF x = k THEN v ELSE m[x]]
Remove(m, k) == [x \in (DOMAIN m) \ {k} |-> m[x]]

----------------------------------------------------------------------------
(* The store: impl RedisLess                                               *)

DataType == {"String", "List", "Set", "Hash"}

new == [data_mapper |-> EmptyMap, string_store |-> EmptyMap]

set_buggy(r, key, value) ==
    [data_mapper |-> Insert(r.data_mapper, key, "String"),
     string_store |-> IF key \in DOMAIN r.string_store
                      THEN r.string_store
                      ELSE Insert(r.string_store, key, value)]

\* set: both maps are written; the tag is always String
set(r, key, value) ==
    [data_mapper |-> Insert(r.data_mapper, key, "String"),
     string_store |-> Insert(r.string_store, key, value)]

\* get: reads string_store only
get(r, key) ==
    IF key \in DOMAIN r.string_store THEN Some(r.string_store[key]) ELSE None

del_buggy(r, key) ==
    IF key \in DOMAIN r.data_mapper
    THEN [ret |-> 1, redisless |-> [r EXCEPT !.string_store = Remove(@, key)]]
    ELSE [ret |-> 0, redisless |-> r]

\* del: looks the key up in data_mapper, removes it from string_store only
\* (data_mapper keeps the key), 1 when string_store held it
del(r, key) ==
    IF key \in DOMAIN r.data_mapper
    THEN CASE r.data_mapper[key] = "String" ->
                [ret |-> IF key \in DOMAIN r.string_store THEN 1 ELSE 0,
                 redisless |-> [r EXCEPT !.string_store = Remove(@, key)]]
           [] OTHER -> [ret |-> 0, redisless |-> r]
    ELSE [ret |-> 0, redisless |-> r]

NoCall == [op |-> "none", key |-> <<>>, value |-> <<>>, got |-> None, count |-> 0]

\* redisless.set(key, value), called directly (tests::test_set_get_and_del)
ApiSet ==
    \E k \in Keys, v \in Values :
        /\ redisless' = set(redisless, k, v)
        /\ api' = [op |-> "set", key |-> k, value |-> v, got |-> None, count |-> 0]
        /\ UNCHANGED <<connVars, lifeVars>>

ApiGet ==
    \E k \in Keys :
        /\ api' = [op |-> "get", key |-> k, value |-> <<>>,
                   got |-> get(redisless, k), count |-> 0]
        /\ UNCHANGED <<redisless, connVars, lifeVars>>

ApiDel ==
    \E k \in Keys :
        /\ redisless' = del(redisless, k).redisless
        /\ api' = [op |-> "del", key |-> k, value |-> <<>>, got |-> None,
                   count |-> del(redisless, k).ret]
        /\ UNCHANGED <<connVars, lifeVars>>

----------------------------------------------------------------------------
(* The connection handler: handle_request                                  *)

CRLF == <<13, 10>>
\* b"+OK\r\n"
OK == <<43, 79, 75, 13, 10>>
\* b"-ERR key does not exist\r\n"
ERR_key_does_not_exist == <<45, 69, 82, 82, 32, 107, 101, 121, 32, 100, 111, 101, 115, 32, 110, 111, 116, 32, 101, 120, 105, 115, 116, 13, 10>>
\* "-ERR "
ERR_prefix == <<45, 69, 82, 82, 32>>

\* the verbs a client sends, as bulk strings
SET == <<83, 69, 84>>
GET == <<71, 69, 84>>
get_lower == <<103, 101, 116>>
DEL == <<68, 69, 76>>
PING == <<80, 73, 78, 71>>

\* {} of an unsigned integer: its decimal digits
RECURSIVE Decimal(_)
Decimal(n) == IF n < 10 THEN <<48 + n>> ELSE Decimal(n \div 10) \o <<48 + (n % 10)>>

\* std::str::from_utf8(value).is_ok(): well-formed UTF-8 from position i on
IsCont(b) == b >= 128 /\ b <= 191
RECURSIVE Utf8From(_, _)
Utf8From(s, i) ==
    IF i > Len(s) THEN TRUE
    ELSE LET b == s[i] IN
         IF b < 128 THEN Utf8From(s, i + 1)
         ELSE IF b >= 194 /\ b <= 223
              THEN /\ i + 1 <= Len(s)
                   /\ IsCont(s[i + 1])
                   /\ Utf8From(s, i + 2)
         ELSE IF b >= 224 /\ b <= 239
              THEN /\ i + 2 <= Len(s)
                   /\ IsCont(s[i + 1])
                   /\ (b = 224 => s[i + 1] >= 160)
                   /\ (b = 237 => s[i + 1] <= 159)
                   /\ IsCont(s[i + 2])
                   /\ Utf8From(s, i + 3)
         ELSE IF b >= 240 /\ b <= 244
              THEN /\ i + 3 <= Len(s)
                   /\ IsCont(s[i + 1])
                   /\ (b = 240 => s[i + 1] >= 144)
                   /\ (b = 244 => s[i + 1] <= 143)
                   /\ IsCont(s[i + 2])
                   /\ IsCont(s[i + 3])
                   /\ Utf8From(s, i + 4)
         ELSE FALSE
from_utf8_is_ok(value) == Utf8From(value, 1)

\* What RedisProtocolParser::parse(&buf) makes of the bytes read: Err, Ok of a value
\* that is no Array, or Ok(RESP::Array(x)) with x the bulk strings of the request.
ParseErr == [kind |-> "Err", items |-> <<>>]
NonArray == [kind |-> "NonArray", items |-> <<>>]
Array(x) == [kind |-> "Array", items |-> x]

Upper(b) == IF b >= 97 /\ b <= 122 THEN b - 32 ELSE b
UpperAll(s) == [i \in 1..Len(s) |-> Upper(s[i])]

\* the message Command::Error carries
ErrorMessage == <<119, 114, 111, 110, 103, 32, 110, 117, 109, 98, 101, 114, 32, 111, 102, 32, 97, 114, 103, 117, 109, 101, 110, 116, 115>>

Cmd(c, k, v, m) == [cmd |-> c, key |-> k, value |-> v, m |-> m]

\* Command::parse: the verb is matched without regard to case; SET takes a key and a
\* value, GET and DEL a key; any other verb is NotSupported and carries the verb
Command_parse(x) ==
    IF x = <<>> THEN Cmd("Error", <<>>, <<>>, ErrorMessage)
    ELSE LET verb == UpperAll(x[1]) IN
         CASE verb = SET ->
                IF Len(x) = 3 THEN Cmd("Set", x[2], x[3], <<>>)
                ELSE Cmd("Error", <<>>, <<>>, ErrorMessage)
           [] verb = GET ->
                IF Len(x) = 2 THEN Cmd("Get", x[2], <<>>, <<>>)
                ELSE Cmd("Error", <<>>, <<>>, ErrorMessage)
           [] verb = DEL ->
                IF Len(x) = 2 THEN Cmd("Del", x[2], <<>>, <<>>)
                ELSE Cmd("Error", <<>>, <<>>, ErrorMessage)
           [] OTHER -> Cmd("NotSupported", <<>>, <<>>, x[1])

\* stream.write(bytes): the bytes go out on the socket (the Result is dropped)
write(bytes) == replies' = Append(replies, bytes)

\* the arm taken when the decode fails or the value is no Array: falls through to
\* the last line, stream.write(b"+OK\r\n")
fallthrough_reply == OK

\* handle_request with a Get that enters the key it misses (an entry().or_insert
\* in place of a get)
handle_request_get_inserts(f) ==
    /\ requests' = Append(requests, f)
    /\ IF f.kind = "Array"
       THEN LET c == Command_parse(f.items) IN
            CASE c.cmd = "Set" ->
                   /\ redisless' = set(redisless, c.key, c.value)
                   /\ write(OK)
                   /\ UNCHANGED listener
              [] c.cmd = "Get" ->
                   LET value == get(redisless, c.key) IN
                   /\ IF value # None
                      THEN /\ UNCHANGED redisless
                           /\ IF from_utf8_is_ok(value[1])
                              THEN /\ write(<<43>> \o value[1] \o CRLF)
                                   /\ UNCHANGED listener
                              ELSE /\ listener' = "panicked"
                                   /\ UNCHANGED replies
                      ELSE /\ redisless' = set(redisless, c.key, <<>>)
                           /\ write(ERR_key_does_not_exist)
                           /\ UNCHANGED listener
              [] c.cmd = "Del" ->
                   LET total_del == del(redisless, c.key) IN
                   /\ redisless' = total_del.redisless
                   /\ write(<<58>> \o Decimal(total_del.ret) \o CRLF)
                   /\ UNCHANGED listener
              [] c.cmd \in {"NotSupported", "Error"} ->
                   /\ write(ERR_prefix \o c.m \o CRLF)
                   /\ UNCHANGED <<redisless, listener>>
       ELSE /\ write(fallthrough_reply)
            /\ UNCHANGED <<redisless, listener>>

\* handle_request(redisless, stream), on the bytes the client sent, given as what
\* the parse makes of them.  An unwrap() of a failed from_utf8 panics: the listener
\* thread unwinds and nothing is written.
handle_request(f) ==
    /\ requests' = Append(requests, f)
    /\ IF f.kind = "Array"
       THEN LET c == Command_parse(f.items) IN
            CASE c.cmd = "Set" ->
                   /\ redisless' = set(redisless, c.key, c.value)
                   /\ write(OK)
                   /\ UNCHANGED listener
              [] c.cmd = "Get" ->
                   LET value == get(redisless, c.key) IN
                   /\ UNCHANGED redisless
                   /\ IF value # None
                      THEN IF from_utf8_is_ok(value[1])
                           THEN /\ write(<<43>> \o value[1] \o CRLF)
                                /\ UNCHANGED listener
                           ELSE /\ listener' = "panicked"
                                /\ UNCHANGED replies
                      ELSE /\ write(ERR_key_does_not_exist)
                           /\ UNCHANGED listener
              [] c.cmd = "Del" ->
                   LET total_del == del(redisless, c.key) IN
                   /\ redisless' = total_del.redisless
                   /\ write(<<58>> \o Decimal(total_del.ret) \o CRLF)
                   /\ UNCHANGED listener
              [] c.cmd \in {"NotSupported", "Error"} ->
                   /\ write(ERR_prefix \o c.m \o CRLF)
                   /\ UNCHANGED <<redisless, listener>>
       ELSE /\ write(fallthrough_reply)
            /\ UNCHANGED <<redisless, listener>>

\* the requests a client sends on the connection
Frames ==
    {Array(<<SET, K_key, V_value>>), Array(<<SET, K_key, V_bad>>),
     Array(<<GET, K_key>>), Array(<<get_lower, K_missing>>),
     Array(<<DEL, K_key>>), Array(<<DEL, K_missing>>),
     Array(<<PING>>), Array(<<GET>>), NonArray, ParseErr}

\* the requests a client sends while the lifecycle is followed
LifeFrames == {Array(<<SET, K_key, V_bad>>), Array(<<GET, K_key>>), ParseErr}

\* how many requests are followed on one connection
MaxRequests == 5
\* how many requests are followed on one connection while the lifecycle is followed
MaxServed == 2

\* the loop without its test of the flag
Serve_ignores_flag(frames, cap) ==
    /\ listener = "serve"
    /\ Len(requests) < cap
    /\ \E f \in frames : handle_request(f)
    /\ UNCHANGED <<api, chan, stop_server, helpers, caller, results, port_free, bound>>

\* while !stop_server.load() { handle_request(..) }: one turn of the loop, on a
\* request out of `frames`, followed for at most `cap` requests a connection
Serve(frames, cap) ==
    /\ listener = "serve"
    /\ ~stop_server
    /\ Len(requests) < cap
    /\ \E f \in frames : handle_request(f)
    /\ UNCHANGED <<api, chan, stop_server, helpers, caller, results, port_free, bound>>

ConnServe == Serve(Frames, MaxRequests)

----------------------------------------------------------------------------
(* Server::new: the channel is empty, the flag is false, both threads wait *)

Idle == [pc |-> "idle", change_to |-> "none", bind_err |-> FALSE]

Init ==
    /\ redisless = new
    /\ api = NoCall
    /\ requests = <<>>
    /\ replies = <<>>
    /\ listener = "recv"
    /\ chan = <<>>
    /\ stop_server = FALSE
    /\ helpers = <<>>
    /\ caller = Idle
    /\ results = <<>>
    /\ port_free \in BOOLEAN
    /\ bound = FALSE

----------------------------------------------------------------------------
(* The lifecycle: Server::_init_configuration and Server::change_state     *)

ServerState == {"Start", "Started", "Stop", "Stopped", "Timeout", "Error"}

\* how many start()/stop() calls are followed
MaxCalls == 3
\* how many messages the channel holds before a failing accept is no longer followed
MaxChan == 2

post_change_to_state(change_to) ==
    CASE change_to = "Start" -> Some("Started")
      [] change_to = "Stop" -> Some("Stopped")
      [] OTHER -> None

\* change_state, up to the wait: a helper thread is spawned that sleeps 1000 ms and
\* then sends change_to; the caller goes on to recv_timeout
change_state(change_to) ==
    /\ caller.pc = "idle"
    /\ Len(results) < MaxCalls
    /\ helpers' = Append(helpers, change_to)
    /\ caller' = [pc |-> "wait", change_to |-> change_to, bind_err |-> FALSE]
    /\ UNCHANGED <<storeVars, connVars, listener, chan, stop_server, results,
                   port_free, bound>>

start == change_state("Start")

stop == change_state("Stop")

\* the helper thread, its sleep over: send_state_ch.send(change_to_th1).
\* The helpers sleep the same 1000 ms, so they send in the order of their calls.
HelperSend ==
    /\ helpers # <<>>
    /\ chan' = Append(chan, Head(helpers))
    /\ helpers' = Tail(helpers)
    /\ UNCHANGED <<storeVars, connVars, listener, stop_server, caller, results,
                   port_free, bound>>

return(server_state) ==
    /\ results' = Append(results, [call |-> caller.change_to, ret |-> server_state,
                                   bind_err |-> caller.bind_err])
    /\ caller' = Idle

\* what the wait returns on receiving server_state: recv_timeout yields ONE
\* Result, so the for loop runs once; a state that is not the awaited one falls
\* out of the loop to ServerState::Timeout
wait_result(change_to, server_state) ==
    IF Some(server_state) = post_change_to_state(change_to)
    THEN server_state
    ELSE "Timeout"

\* change_state, the wait: recv_timeout takes the next message of the channel
CallerRecv ==
    /\ caller.pc = "wait"
    /\ chan # <<>>
    /\ chan' = Tail(chan)
    /\ return(wait_result(caller.change_to, Head(chan)))
    /\ UNCHANGED <<storeVars, connVars, listener, stop_server, helpers,
                   port_free, bound>>

CallerTimeout_never == FALSE /\ UNCHANGED vars

\* change_state, the wait: the 10 s elapse with nothing to receive.  By then the
\* helpers (1 s) have sent, and a bind begun has ended.
CallerTimeout ==
    /\ caller.pc = "wait"
    /\ chan = <<>>
    /\ helpers = <<>>
    /\ listener # "bind"
    /\ return("Timeout")
    /\ UNCHANGED <<storeVars, connVars, listener, chan, stop_server, helpers,
                   port_free, bound>>

\* the signal thread: for server_state in stop_state_recv
SignalRecv ==
    /\ chan # <<>>
    /\ chan' = Tail(chan)
    /\ stop_server' = IF Head(chan) = "Stop" THEN TRUE ELSE stop_server
    /\ UNCHANGED <<storeVars, connVars, listener, helpers, caller, results,
                   port_free, bound>>

\* the listener thread: for server_state in start_state_recv
ListenerRecv ==
    /\ listener = "recv"
    /\ chan # <<>>
    /\ chan' = Tail(chan)
    /\ listener' = IF Head(chan) = "Start" THEN "bind" ELSE "recv"
    /\ UNCHANGED <<storeVars, connVars, stop_server, helpers, caller, results,
                   port_free, bound>>

\* a bind that failed while a start() call waits is noted in that call
note_bind_err ==
    caller' = IF caller.pc = "wait" /\ caller.change_to = "Start"
              THEN [caller EXCEPT !.bind_err = TRUE]
              ELSE caller

ListenerBind_started_first ==
    /\ listener = "bind"
    /\ chan' = Append(chan, "Started")
    /\ IF port_free
       THEN listener' = "accept" /\ bound' = TRUE /\ UNCHANGED caller
       ELSE listener' = "recv" /\ UNCHANGED bound /\ note_bind_err
    /\ UNCHANGED <<storeVars, connVars, stop_server, helpers, results, port_free>>

\* the send of Stopped placed after the match, so that it follows the Error too
ListenerBind_error_then_stopped ==
    /\ listener = "bind"
    /\ IF port_free
       THEN /\ chan' = Append(chan, "Started")
            /\ listener' = "accept"
            /\ bound' = TRUE
            /\ UNCHANGED caller
       ELSE /\ chan' = chan \o <<"Error", "Stopped">>
            /\ listener' = "recv"
            /\ UNCHANGED bound
            /\ note_bind_err
    /\ UNCHANGED <<storeVars, connVars, stop_server, helpers, results, port_free>>

\* the listener thread: TcpListener::bind(addr), then Started or Error is sent
ListenerBind ==
    /\ listener = "bind"
    /\ IF port_free
       THEN /\ chan' = Append(chan, "Started")
            /\ listener' = "accept"
            /\ bound' = TRUE
            /\ UNCHANGED caller
       ELSE /\ chan' = Append(chan, "Error")
            /\ listener' = "recv"
            /\ UNCHANGED bound
            /\ note_bind_err
    /\ UNCHANGED <<storeVars, connVars, stop_server, helpers, results, port_free>>

\* listener.incoming(): accept() over and over, it never yields None, so the
\* loop has no exit and the send of Stopped after it (line 184) is never reached.
\* Ok(tcp_stream): the connection is served
ListenerAcceptOk ==
    /\ listener = "accept"
    /\ listener' = "serve"
    /\ requests' = <<>>
    /\ replies' = <<>>
    /\ UNCHANGED <<storeVars, chan, stop_server, helpers, caller, results,
                   port_free, bound>>

\* a break in the Err arm: the accept loop is left and Stopped is sent
ListenerAcceptErr_leaves_loop ==
    /\ listener = "accept"
    /\ Len(chan) < MaxChan
    /\ chan' = chan \o <<"Error", "Stopped">>
    /\ listener' = "recv"
    /\ UNCHANGED <<storeVars, connVars, stop_server, helpers, caller,
                   results, port_free, bound>>

\* Err(err): Error is sent, and accept is called again
ListenerAcceptErr ==
    /\ listener = "accept"
    /\ Len(chan) < MaxChan
    /\ chan' = Append(chan, "Error")
    /\ UNCHANGED <<storeVars, connVars, listener, stop_server, helpers, caller,
                   results, port_free, bound>>

ListenerServe == Serve(LifeFrames, MaxServed)

\* the client closes its end of the connection being served
ClientClose ==
    /\ listener = "serve"
    /\ listener' = "serve_eof"
    /\ UNCHANGED <<storeVars, connVars, chan, stop_server, helpers, caller,
                   results, port_free, bound>>

\* the loop on a connection the client has closed: read gives Ok(0), the buffer
\* of zeros does not decode, and handle_request is called again at once
ListenerServeEof ==
    /\ listener = "serve_eof"
    /\ ~stop_server
    /\ Len(requests) < MaxServed
    /\ handle_request(ParseErr)
    /\ UNCHANGED <<api, chan, stop_server, helpers, caller, results, port_free, bound>>

\* the loop over the connections left for the loop over the lifecycle requests
ListenerLeave_to_recv ==
    /\ listener \in {"serve", "serve_eof"}
    /\ stop_server
    /\ listener' = "recv"
    /\ UNCHANGED <<storeVars, connVars, chan, stop_server, helpers, caller,
                   results, port_free, bound>>

\* the while loop ends on the flag: tcp_stream is dropped, back to accept
ListenerLeave ==
    /\ listener \in {"serve", "serve_eof"}
    /\ stop_server
    /\ listener' = "accept"
    /\ UNCHANGED <<storeVars, connVars, chan, stop_server, helpers, caller,
                   results, port_free, bound>>

Next ==
    \/ start
    \/ stop
    \/ HelperSend
    \/ CallerRecv
    \/ CallerTimeout
    \/ SignalRecv
    \/ ListenerRecv
    \/ ListenerBind
    \/ ListenerAcceptOk
    \/ ListenerAcceptErr
    \/ ListenerServe
    \/ ClientClose
    \/ ListenerServeEof
    \/ ListenerLeave

Spec == Init /\ [][Next]_vars

\* The threads are scheduled: a helper's sleep ends, a bind returns, and the
\* caller's recv_timeout returns when a message is there or the 10 s are over
FairSpec ==
    /\ Spec
    /\ WF_vars(HelperSend)
    /\ WF_vars(ListenerBind)
    /\ WF_vars(CallerRecv \/ CallerTimeout)

----------------------------------------------------------------------------
\* The store used as a library, before a Server takes it over
StoreNext == ApiSet \/ ApiGet \/ ApiDel

SpecStore == Init /\ [][StoreNext]_vars

\* A started server serving its first connection: start() has returned Started
\* and the listener has accepted a client
ConnInit ==
    /\ redisless = new
    /\ api = NoCall
    /\ requests = <<>>
    /\ replies = <<>>
    /\ listener = "serve"
    /\ chan = <<>>
    /\ stop_server = FALSE
    /\ helpers = <<>>
    /\ caller = Idle
    /\ results = <<[call |-> "Start", ret |-> "Started", bind_err |-> FALSE]>>
    /\ port_free = TRUE
    /\ bound = TRUE

ConnNext == ConnServe

SpecConn == ConnInit /\ [][ConnNext]_vars

----------------------------------------------------------------------------
(* The claims                                                              *)

Calls == 1..Len(results)

\* C1: on a Server just constructed whose port is free, start() returns Started,
\* however the listener, the signal thread, the helper and the caller's wait
\* interleave on the channel.
C1_StartReturnsStarted ==
    (port_free /\ results # <<>> /\ results[1].call = "Start")
        => results[1].ret = "Started"

\* C2: once a start() has returned Started, a stop() returns Stopped, and from
\* then on the listener is out of its accept loop.
C2_StopReturnsStopped ==
    \A i \in Calls :
        (results[i].call = "Stop" /\ \E j \in 1..(i - 1) : results[j].ret = "Started")
            => (results[i].ret = "Stopped"
                /\ listener \notin {"accept", "serve", "serve_eof"})

\* C3: a set(k, v) makes get(k) return exactly v, also when k was deleted
\* before, and get(k) keeps its value over every call that is not a set or a
\* del of k itself.
C3_SetThenGet ==
    [][\A k \in Keys :
          /\ (api'.op = "set" /\ api'.key = k)
                => get(redisless', k) = Some(api'.value)
          /\ ~(api'.op \in {"set", "del"} /\ api'.key = k)
                => get(redisless', k) = get(redisless, k)]_vars

\* a get has returned the value set for a key the data_mapper already knew
C3_Witness ==
    /\ api.op = "get"
    /\ api.key = K_key
    /\ api.got = Some(V_bad)

\* C4: del(k) returns 1 exactly when k holds a value and 0 otherwise; after it
\* get(k) returns nothing and a del(k) following at once returns 0.
C4_DelCounts ==
    [][api'.op = "del" =>
          LET k == api'.key IN
          /\ api'.count = (IF get(redisless, k) # None THEN 1 ELSE 0)
          /\ api'.count \in {0, 1}
          /\ get(redisless', k) = None
          /\ del(redisless', k).ret = 0]_vars

\* a del has removed a value
C4_Witness ==
    /\ api.op = "del"
    /\ api.count = 1
    /\ api.key \in DOMAIN redisless.data_mapper

\* C5: every key of the type index (data_mapper) has an entry in the store of
\* its tag (string_store for String); so a key deleted is in neither map.
C5_TypeIndexBacked ==
    \A k \in DOMAIN redisless.data_mapper :
        redisless.data_mapper[k] = "String" => k \in DOMAIN redisless.string_store

\* C6: on one connection to a started server without the key `key`, the requests
\* SET key value, GET key, GET missing, DEL key, DEL key are answered +OK, the
\* value, -ERR key does not exist, :1, :0; and every Set is answered +OK once
\* stored, every Get the current value or the key-does-not-exist error, every
\* Del the integer the store's del returns.
Scenario ==
    <<Array(<<SET, K_key, V_value>>), Array(<<GET, K_key>>),
      Array(<<get_lower, K_missing>>), Array(<<DEL, K_key>>), Array(<<DEL, K_key>>)>>

ScenarioReplies ==
    <<OK, <<43>> \o V_value \o CRLF, ERR_key_does_not_exist,
      <<58, 49, 13, 10>>, <<58, 48, 13, 10>>>>

IsCommand(f, names) == f.kind = "Array" /\ Command_parse(f.items).cmd \in names

\* the store the n first requests of the connection leave, by the claim: a Set
\* stores, a Del deletes, nothing else touches it
RECURSIVE StoreAfter(_, _)
StoreAfter(reqs, n) ==
    IF n = 0 THEN new
    ELSE LET r == StoreAfter(reqs, n - 1)
             f == reqs[n]
         IN  IF IsCommand(f, {"Set"})
             THEN set(r, Command_parse(f.items).key, Command_parse(f.items).value)
             ELSE IF IsCommand(f, {"Del"})
             THEN del(r, Command_parse(f.items).key).redisless
             ELSE r

ClaimedReply(f, r) ==
    LET c == Command_parse(f.items) IN
    CASE c.cmd = "Set" -> OK
      [] c.cmd = "Get" ->
            IF get(r, c.key) # None
            THEN <<43>> \o get(r, c.key)[1] \o CRLF
            ELSE ERR_key_does_not_exist
      [] c.cmd = "Del" -> <<58>> \o Decimal(del(r, c.key).ret) \o CRLF

C6_RepliesMatch ==
    /\ \A i \in 1..Len(requests) :
          IsCommand(requests[i], {"Set", "Get", "Del"})
             => /\ i <= Len(replies)
                /\ replies[i] = ClaimedReply(requests[i], StoreAfter(requests, i - 1))
    /\ requests = Scenario => replies = ScenarioReplies

\* C7: when the bind attempted for a start() call fails, that call returns Error.
C7_BindFailureReturnsError ==
    \A i \in Calls :
        (results[i].call = "Start" /\ results[i].bind_err) => results[i].ret = "Error"

\* C8: a start() returns Started only when the listener thread, having received
\* a Start, has bound the address.
C8_StartedOnlyAfterBind ==
    \A i \in Calls :
        results[i].ret = "Started"
            => /\ results[i].call = "Start"
               /\ bound
               /\ port_free
               /\ listener \notin {"recv", "bind"}

\* a start() has returned Started
C8_Witness == \E i \in Calls : results[i].call = "Start" /\ results[i].ret = "Started"

\* C9: every start() and stop() call returns, with the confirmation it waits
\* for or with Timeout.
C9_CallsReturn ==
    /\ [](\A i \in Calls :
             Some(results[i].ret) = post_change_to_state(results[i].call)
             \/ results[i].ret = "Timeout")
    /\ (caller.pc = "wait") ~> (caller.pc = "idle")

\* a stop() has come back with Timeout after its Stop was taken off the channel
C9_Witness ==
    \E i \in Calls :
        /\ results[i].call = "Stop"
        /\ results[i].ret = "Timeout"
        /\ stop_server

\* C10: a request that fails to decode, or decodes to a value that is no Array,
\* is answered with an -ERR reply, and the connection goes on being served.
IsErrReply(bytes) == Len(bytes) >= 4 /\ SubSeq(bytes, 1, 4) = <<45, 69, 82, 82>>

C10_MalformedGetsErr ==
    \A i \in 1..Len(requests) :
        requests[i].kind # "Array"
            => /\ i <= Len(replies)
               /\ IsErrReply(replies[i])
               /\ (i = Len(requests) => listener = "serve")

\* C11: every value a client stores with SET, valid UTF-8 or not, is what a
\* later GET of the key replies, and no request ends the listener thread.
C11_GetRoundTrips ==
    /\ listener # "panicked"
    /\ \A i \in 1..Len(requests) :
          (IsCommand(requests[i], {"Get"})
             /\ get(StoreAfter(requests, i - 1), Command_parse(requests[i].items).key) # None)
             => /\ i <= Len(replies)
                /\ replies[i] = <<43>>
                      \o get(StoreAfter(requests, i - 1),
                             Command_parse(requests[i].items).key)[1]
                      \o CRLF

\* C12: every invocation of handle_request writes to the socket exactly once,
\* whatever the decode gives and whatever the command is.
C12_OneWritePerInvocation == Len(replies) = Len(requests)

\* C13: handle_request changes the store only for a Set or a Del; a Get, a
\* NotSupported, an Error, a value that is no Array and a failed decode leave
\* data_mapper and string_store as they were, and NotSupported and Error write
\* only the -ERR reply with their message.
C13_StoreFrame ==
    [][Len(requests') = Len(requests) + 1 =>
          LET f == requests'[Len(requests')] IN
          /\ ~IsCommand(f, {"Set", "Del"}) => redisless' = redisless
          /\ IsCommand(f, {"NotSupported", "Error"})
                => replies' = Append(replies,
                                     ERR_prefix \o Command_parse(f.items).m \o CRLF)]_vars

\* a Get of a key that is not there has been answered with values in the store
C13_Witness ==
    /\ Len(requests) >= 2
    /\ requests[Len(requests)] = Array(<<get_lower, K_missing>>)
    /\ DOMAIN redisless.string_store = {K_key}
    /\ Len(replies) = Len(requests)

InSeq(x, q) == \E i \in 1..Len(q) : q[i] = x

StopCalled ==
    \/ \E i \in Calls : results[i].call = "Stop"
    \/ (caller.pc = "wait" /\ caller.change_to = "Stop")

\* C14: the Stop a stop() call posts is received by the signal thread, which
\* sets the stop flag, however the threads reading the channel interleave.
C14_StopSetsFlag ==
    (StopCalled /\ ~InSeq("Stop", helpers) /\ ~InSeq("Stop", chan)) => stop_server

\* C15: the stop flag is set only by the signal thread as it receives Stop and
\* is never cleared; once it is true the listener begins no handle_request, on
\* the connection served or on one accepted later.
C15_FlagStopsServing ==
    [][/\ stop_server => stop_server'
       /\ stop_server' # stop_server
             => /\ chan # <<>>
                /\ Head(chan) = "Stop"
                /\ chan' = Tail(chan)
                /\ UNCHANGED <<listener, caller, results, helpers, connVars, redisless>>
       /\ stop_server
             => /\ requests' \in {requests, <<>>}
                /\ replies' \in {replies, <<>>}
                /\ redisless' = redisless]_vars

\* the flag is set while a connection that has had a request is being served
C15_Witness ==
    /\ stop_server
    /\ listener = "serve"
    /\ requests # <<>>

\* C16: while the server is started and the flag is clear, neither a request
\* that fails nor the end of a connection keeps the listener from the next
\* connection: the thread lives on, and from a connection that has ended it
\* goes back to accept.
C16_NextConnectionServed ==
    (bound /\ ~stop_server)
        => /\ listener # "panicked"
           /\ listener = "serve_eof" => ENABLED ListenerLeave

\* C17: a start() call that receives a state other than Started goes on
\* waiting; it returns Timeout only when the bound elapses with nothing received.
C17_WaitGoesOn ==
    [][(/\ caller.pc = "wait"
        /\ caller.change_to = "Start"
        /\ caller'.pc = "idle"
        /\ results'[Len(results')].ret = "Timeout")
          => chan' = chan]_vars

\* C18: a bind that fails makes the listener send one Error and nothing else,
\* leaves it unbound and waiting for lifecycle requests; it binds again only on
\* taking another Start off the channel, and then it does.
C18_BindFailure ==
    [][/\ (listener = "bind" /\ listener' # "bind" /\ ~port_free)
             => /\ chan' = Append(chan, "Error")
                /\ listener' = "recv"
                /\ ~bound'
       /\ (listener # "bind" /\ listener' = "bind")
             => /\ listener = "recv"
                /\ chan # <<>>
                /\ Head(chan) = "Start"
                /\ chan' = Tail(chan)
       /\ (listener = "recv" /\ listener' # "recv") => listener' = "bind"]_vars

\* after a bind has failed during a start() call, the listener is binding again
C18_Witness ==
    /\ listener = "bind"
    /\ ~port_free
    /\ \E i \in Calls : results[i].bind_err

\* C19: a failing accept makes the listener send Error and go on accepting: no
\* request is served for it, the accept loop is not left, Stopped is not sent.
C19_AcceptErrorKeepsAccepting ==
    /\ [](~InSeq("Stopped", chan))
    /\ [][(/\ listener = "accept"
           /\ Len(chan') > Len(chan)
           /\ chan'[Len(chan')] \notin {"Start", "Stop"})
             => /\ chan' = Append(chan, "Error")
                /\ listener' = "accept"
                /\ UNCHANGED <<connVars, redisless>>]_vars

\* an accept has failed on a bound listener, which is accepting still
C19_Witness ==
    /\ listener = "accept"
    /\ bound
    /\ InSeq("Error", chan)

\* C20: in the life of a Server the listener binds at most once and sends
\* Started at most once; once bound it reads no lifecycle request again, so at
\* most one start() call returns Started.
C20_AtMostOneStarted ==
    /\ [](Cardinality({i \in Calls : results[i].ret = "Started"}) <= 1)
    /\ [][bound
            => /\ listener' \notin {"recv", "bind"}
               /\ ~(Len(chan') > Len(chan) /\ chan'[Len(chan')] = "Started")]_vars

\* a start() has returned Started and a later start() Timeout
C20_Witness ==
    \E i, j \in Calls :
        /\ i < j
        /\ results[i].ret = "Started"
        /\ results[j].call = "Start"
        /\ results[j].ret = "Timeout"

====
